---- MODULE Spec2Model ----
\* KumaScript template API (lib/kumascript/api.js): the APIContext operations
\* cacheFn, template, require and performAutoRequire, with the fibers that
\* call them, the futures they wait on and the callbacks of the loader, the
\* template units and the cache client.
\*
\* A logical task is a stack of levels.  Level 1 is a fiber started by the
\* renderer (a script) or by performAutoRequire (an autorequire fiber); each
\* further level is the body of a template unit that the level below is
\* waiting for inside template().  A fiber runs without interruption from one
\* future.wait() to the next, so every action is the code between two
\* suspension points: the start of a call up to its wait, or one callback
\* together with the continuation of the fiber that Future.return resumes.
\*
\* Spec is the context with collaborators that answer through their
\* callbacks, FairSpec adds that every callback is called in the end, and
\* ThrowSpec adds a loader and units that throw.  ArgSpec follows the
\* argument slots that setArguments and the clone of template() set, and
\* AliasSpec a namespace on which setCaseVariantAliases installs values.
EXTENDS Integers, Sequences, FiniteSets, TLC

VARIABLES
    autorequire,    \* options.server_options.autorequire
    cache,          \* this.memcached: what the cache client holds (FakeMemcached._cache)
    require_cache,  \* this._require_cache, one object shared by every clone
    errors,         \* $this.errors, the error sink shared by every clone
    clone_ctx,      \* the variable clone_ctx, assigned without var: a global
    containers,     \* the export containers created so far, by identity
    tasks,          \* the logical tasks: their levels and calls in progress
    installed,      \* properties performAutoRequire set on the context
    loopIdx,        \* position of async.forEach in the autorequire keys
    completed,      \* async.forEach's count of finished iterations
    doneCount,      \* how many times performAutoRequire called next
    computeCount,   \* per key: how many times to_cache was invoked
    lastReturned,   \* per key: the value the latest finished cacheFn returned
    reqReturned,    \* per name: <<e>> once a require returned, e the latest container
    calls,          \* calls issued so far in the lineage
    cacheFailed,    \* whether the cache client has reported an error so far
    thisArgs,       \* the argument properties of a context: $0.., arguments, $$
    childArgs,      \* those of the clone template() hands to the unit
    argOp,          \* the operation that set them last
    argList,        \* <<list>> it was given, <<>> when it was given none
    namespace,      \* an object setCaseVariantAliases installs on
    installs,       \* how many values were installed on it
    lastInstall     \* the name and the value of the latest install

\* The state of the context operations, of the argument slots and of the
\* namespace.
apiVars == <<autorequire, cache, require_cache, errors, clone_ctx,
             containers, tasks, installed, loopIdx, completed, doneCount,
             computeCount, lastReturned, reqReturned, calls, cacheFailed>>
argVars == <<thisArgs, childArgs, argOp, argList>>
aliasVars == <<namespace, installs, lastInstall>>
vars == <<apiVars, argVars, aliasVars>>

----------------------------------------------------------------------------
\* Bounds of the model.

\* Script fibers the renderer runs in one lineage.
NumTasks == 2
\* Calls of cacheFn, template and require that scripts and template bodies
\* issue in one lineage, counting the require of each autorequire fiber.
MaxCalls == 2
\* Entries of the autorequire mapping.
MaxAuto == 2
\* Lists of any content have up to MaxShort arguments; lists of one repeated
\* argument have up to MaxArgs, one more than the slots $0..$99.
MaxShort == 2
MaxArgs == 101
\* Characters of a name installed on a namespace, and values installed.
MaxNameLen == 2
MaxInstalls == 2

----------------------------------------------------------------------------
\* Values.

\* Template names the loader resolves, and all names scripts ask for.
Resolvable == {"A", "B"}
Names == Resolvable \cup {"missing"}
Keys == {"k"}
\* JavaScript's undefined: a key FakeMemcached._cache does not hold.
Undefined == "<undefined>"
\* What a to_cache function can supply: a falsy value and a truthy one.
Values == {"", "v"}
\* What a template unit can deliver as its result.
Outputs == {"", "out"}
\* No value: no earlier call, no container, no module property.
None == "<none>"
NoContainer == 0

\* The test `if (c_result)` of cacheFn.
Truthy(v) == v \notin {"", Undefined}

LoadingError(name, cause) ==
    [type |-> "TemplateLoadingError", name |-> name, error |-> cause]
ExecutionError(name, cause) ==
    [type |-> "TemplateExecutionError", name |-> name, error |-> cause]

\* A call of cacheFn, template or require, with what happened in it so far;
\* loaded tells that the callback handed to loader.get has been called,
\* resolved counts the calls of return on the future the call waits on.
\* A level holds the call it is waiting in or, with phase "returned" or
\* "thrown", the call it finished last.
NoCall ==
    [op |-> "none", arg |-> "", phase |-> "", thisModule |-> NoContainer,
     priorVal |-> None, priorExp |-> <<>>,
     errs |-> <<>>, loaded |-> FALSE, executed |-> FALSE, failed |-> FALSE, delivered |-> None,
     computed |-> FALSE, val |-> None, getErr |-> FALSE, setErr |-> FALSE,
     out |-> None, exp |-> NoContainer, threw |-> FALSE, resolved |-> 0]

Level(kind, name, install, module) ==
    [kind |-> kind, name |-> name, install |-> install, module |-> module,
     call |-> NoCall]

----------------------------------------------------------------------------
\* setCaseVariantAliases($this, name, val).  A name is a sequence of
\* characters.

\* The letters the model's names are made of, with their two cases, and a
\* character that has no case.
LowerChar(c) ==
    CASE c = "X" -> "x" [] c = "Y" -> "y" [] c = "Z" -> "z" [] c = "F" -> "f"
      [] OTHER -> c
UpperChar(c) ==
    CASE c = "x" -> "X" [] c = "y" -> "Y" [] c = "z" -> "Z" [] c = "f" -> "F"
      [] OTHER -> c
Chars == {"f", "F", "_"}

\* name.toLowerCase()
ToLowerCase(name) == [i \in 1..Len(name) |-> LowerChar(name[i])]

\* name.toUpperCase(), which setCaseVariantAliases does not use
UpperCased(name) == [i \in 1..Len(name) |-> UpperChar(name[i])]
\* name.charAt(0).toUpperCase() + name.slice(1)
Capitalized(name) ==
    IF name = <<>> THEN <<>> ELSE <<UpperChar(name[1])>> \o Tail(name)

\* The three assignments, in the order of the code.
SetCaseVariantAliases(ns, name, val) ==
    LET asIs == [ns EXCEPT ![name] = val]
        lower == [asIs EXCEPT ![ToLowerCase(name)] = val]
    IN  [lower EXCEPT ![Capitalized(name)] = val]

\* The install-names of the autorequire mapping, in the order of its keys,
\* and the properties they can set on the context.
InstallNames == <<<<"x">>, <<"y">>, <<"z">>>>
NamespaceKeys == {<<"x">>, <<"y">>, <<"z">>, <<"X">>, <<"Y">>, <<"Z">>}

\* The names and values installed on a namespace of its own.
AliasNames == UNION {[1..n -> Chars] : n \in 0..MaxNameLen}
AliasValues == {"v1", "v2"}
Unset == "<unset>"

----------------------------------------------------------------------------
\* setArguments(args) and the clone template() makes.

\* The HACK loop `for (var i=0; i<99; i++)`: the slots it clears.
SlotsCleared == 99
\* The slots $i the model follows.
SlotIds == 0..(MaxArgs - 1)
ArgValues == {"a", "b"}
\* A property the object does not have.
Absent == "<absent>"

\* The lists given to setArguments and template.
ArgLists ==
    UNION {[1..n -> ArgValues] : n \in 0..MaxShort}
        \cup {[i \in 1..n |-> "a"] : n \in (SlotsCleared - 1)..MaxArgs}
\* An argument list, or none (undefined).
ArgInputs == {<<>>} \cup {<<list>> : list \in ArgLists}

\* A context on which setArguments has not been called.
FreshArgs ==
    [slots |-> [i \in SlotIds |-> Absent], arguments |-> <<>>, dd |-> <<>>]

\* setArguments: `arguments = $$ = args || []`, the loop that clears
\* $0..$98, then _.each(args, ...), which does nothing without a list.
SetArgumentsWithoutClear(c, args) ==
    LET list == IF args = <<>> THEN <<>> ELSE args[1]
    IN  [slots |-> [i \in SlotIds |->
                      IF i < Len(list) THEN list[i + 1] ELSE c.slots[i]],
         arguments |-> <<list>>, dd |-> <<list>>]
SetArguments(c, args) ==
    LET list == IF args = <<>> THEN <<>> ELSE args[1]
        cleared == [i \in SlotIds |-> IF i < SlotsCleared THEN "" ELSE c.slots[i]]
    IN  [slots |-> [i \in SlotIds |->
                      IF i < Len(list) THEN list[i + 1] ELSE cleared[i]],
         arguments |-> <<list>>, dd |-> <<list>>]

\* _.clone($this): a new object with the properties of $this.
Clone(c) == c

----------------------------------------------------------------------------
\* Initial state: a context right after initialize(), before the renderer
\* calls performAutoRequire.

\* server_options.autorequire: absent, or a mapping whose i-th key is
\* InstallNames[i] and whose i-th value is tmpls[i].
AutoConfigs ==
    {[present |-> FALSE, tmpls |-> <<>>]} \cup
    {[present |-> TRUE, tmpls |-> m] :
        m \in UNION {[1..n -> Names] : n \in 0..MaxAuto}}

NumAuto == Len(autorequire.tmpls)
\* The fibers of the lineage: the fibers performAutoRequire starts, one per
\* entry, or, for a context configured without autorequire, the script fibers
\* the renderer runs once performAutoRequire has called next.
AllTasks == DOMAIN tasks

Init ==
    /\ autorequire \in AutoConfigs
    /\ cache = [k \in Keys |-> Undefined]
    /\ require_cache = [n \in Names |-> NoContainer]
    /\ errors = <<>>
    /\ clone_ctx = [module |-> NoContainer]
    /\ containers = <<>>
    /\ tasks = IF ~autorequire.present
               THEN [t \in 1..NumTasks |-> <<Level("script", "", <<>>, NoContainer)>>]
               ELSE [t \in 1..Len(autorequire.tmpls) |->
                       <<Level("auto", autorequire.tmpls[t], InstallNames[t],
                               NoContainer)>>]
    /\ installed = [k \in NamespaceKeys |-> NoContainer]
    /\ loopIdx = 0
    /\ completed = 0
    /\ doneCount = 0
    /\ computeCount = [k \in Keys |-> 0]
    /\ lastReturned = [k \in Keys |-> None]
    /\ reqReturned = [n \in Names |-> <<>>]
    /\ calls = 0
    /\ cacheFailed = FALSE
    /\ thisArgs = FreshArgs
    /\ childArgs = FreshArgs
    /\ argOp = "initialize"
    /\ argList = <<>>
    /\ namespace = [k \in AliasNames |-> Unset]
    /\ installs = 0
    /\ lastInstall = [name |-> <<>>, val |-> Unset]

----------------------------------------------------------------------------
\* Access to the running level of a task.
Depth(t) == Len(tasks[t])
Top(t) == tasks[t][Depth(t)]
WithTop(stack, lvl) == [stack EXCEPT ![Len(stack)] = lvl]
\* A level whose call is in progress; a level whose call has just finished.
Waiting(lvl, call) == [lvl EXCEPT !.call = call]
Returned(lvl, call) == [lvl EXCEPT !.call = call]
\* The level is running its own code, not waiting inside a call: a call
\* comes back from future.wait() before it returns.
ReturnsWithoutWait(lvl) == TRUE
Idle(lvl) == lvl.call.phase \in {"", "returned", "thrown"}

\* async.forEach is still starting fibers: nothing else runs meanwhile.
LoopRunning == loopIdx >= 1 /\ loopIdx <= NumAuto

\* Fiber t has issued a call.
Started(t) == tasks[t][1].call.op # "none"

\* The running level of t may issue a call: the renderer runs scripts once
\* performAutoRequire has called next; a unit's body runs when executed.
\* Script fibers are numbered in the order of their first calls.
CanCall(t) ==
    /\ ~LoopRunning
    /\ calls < MaxCalls
    /\ Idle(Top(t))
    /\ \/ Top(t).kind = "unit"
       \/ /\ Top(t).kind = "script"
          /\ doneCount >= 1
          /\ IF t = 1 THEN TRUE ELSE Started(t - 1)

SetTask(t, stack) == tasks' = [tasks EXCEPT ![t] = stack]

----------------------------------------------------------------------------
\* cacheFn(key, tm_out, to_cache)
\*
\* The cache client is the real Memcached client or FakeMemcached.  Both
\* answer get and set through a callback (err, result); the model delivers
\* the callback as a step of its own, with or without an error.
\* FakeMemcached is the client whose callbacks follow at once and never
\* carry an error.

\* What a client hands to the callback of get: the stored value, undefined
\* for a key it does not hold, and no result with an error.
ClientGet(err, stored) == IF err THEN Undefined ELSE stored

\* What set leaves in the client: the value, unless the set failed.
ClientSet(err, store, key, val) == IF err THEN store ELSE [store EXCEPT ![key] = val]

\* `result = val` in the callback of mc.set, whatever err is.
SetResultOnlyOnSuccess(err, val) == IF err THEN None ELSE val
SetCallbackResult(err, val) == val

\* f.wait() returns; return result.
FinishCacheFn(t, fr, result) ==
    /\ SetTask(t, WithTop(tasks[t],
                  Returned(Top(t), [fr EXCEPT !.out = result, !.phase = "returned",
                                             !.resolved = @ + 1])))
    /\ lastReturned' = [lastReturned EXCEPT ![fr.arg] = result]

\* cacheFn up to f.wait(): mc.get(key, ...)
CallCacheFn(t, k) ==
    /\ CanCall(t)
    /\ calls' = calls + 1
    /\ UNCHANGED cacheFailed
    /\ SetTask(t, WithTop(tasks[t], Waiting(Top(t),
           [NoCall EXCEPT !.op = "cacheFn", !.arg = k, !.phase = "get",
                          !.priorVal = lastReturned[k]])))
    /\ UNCHANGED <<argVars, aliasVars, autorequire, cache, require_cache, errors, clone_ctx, containers,
                   installed, loopIdx, completed, doneCount, computeCount,
                   lastReturned, reqReturned>>

\* The callback handed to mc.get: a hit returns the future, a miss calls
\* to_cache.
CacheGetCallback(t, err) ==
    /\ UNCHANGED calls
    /\ cacheFailed' = (cacheFailed \/ err)
    /\ ~LoopRunning
    /\ Top(t).call.op = "cacheFn" /\ Top(t).call.phase = "get"
    /\ LET fr == [Top(t).call EXCEPT !.getErr = err]
           c_result == ClientGet(err, cache[fr.arg])
       IN  IF Truthy(c_result)
           THEN /\ FinishCacheFn(t, fr, c_result)
                /\ UNCHANGED computeCount
           ELSE /\ SetTask(t, WithTop(tasks[t], Waiting(Top(t),
                        [fr EXCEPT !.phase = "compute", !.computed = TRUE])))
                /\ computeCount' = [computeCount EXCEPT ![fr.arg] = @ + 1]
                /\ UNCHANGED lastReturned
    /\ UNCHANGED <<argVars, aliasVars, autorequire, cache, require_cache, errors, clone_ctx, containers,
                   installed, loopIdx, completed, doneCount, reqReturned>>

\* The callback handed to to_cache: it supplies val; mc.set(key, val, ...)
ComputeCallback(t, val) ==
    /\ UNCHANGED <<calls, cacheFailed>>
    /\ ~LoopRunning
    /\ Top(t).call.op = "cacheFn" /\ Top(t).call.phase = "compute"
    /\ SetTask(t, WithTop(tasks[t], Waiting(Top(t),
           [Top(t).call EXCEPT !.val = val, !.phase = "set"])))
    /\ UNCHANGED <<argVars, aliasVars, autorequire, cache, require_cache, errors, clone_ctx, containers,
                   installed, loopIdx, completed, doneCount, computeCount,
                   lastReturned, reqReturned>>

\* The callback handed to mc.set.
CacheSetCallback(t, err) ==
    /\ UNCHANGED calls
    /\ cacheFailed' = (cacheFailed \/ err)
    /\ ~LoopRunning
    /\ Top(t).call.op = "cacheFn" /\ Top(t).call.phase = "set"
    /\ LET fr == [Top(t).call EXCEPT !.setErr = err]
       IN  /\ cache' = ClientSet(err, cache, fr.arg, fr.val)
           /\ FinishCacheFn(t, fr, SetCallbackResult(err, fr.val))
    /\ UNCHANGED <<argVars, aliasVars, autorequire, require_cache, errors, clone_ctx, containers,
                   installed, loopIdx, completed, doneCount, computeCount, reqReturned>>

----------------------------------------------------------------------------
\* template(name, args) and require(name)

\* Names for which loader.get may throw instead of calling back.
LoaderThrows(name) == IF name \in Resolvable THEN {FALSE} ELSE {FALSE, TRUE}

\* `name in this._require_cache`
InRequireCache(name) == require_cache[name] # NoContainer

\* `this._require_cache[name] = clone_ctx.module.exports`
NoRequireCacheWrite(rc, name, e) == rc
RequireCacheWrite(rc, name, e) == [rc EXCEPT ![name] = e]

\* fe_next(): async.forEach calls next once all n = len iterations have
\* called fe_next.
NextCalledByEachFiber(n, len) == TRUE
ForEachDone(n, len) == n = len

\* errors.push(new TemplateLoadingError(...))
LoadingErrorDropped(errs, name, cause) == errs
PushReplacesSink(errs, name, cause) == <<LoadingError(name, cause)>>
PushLoadingError(errs, name, cause) == Append(errs, LoadingError(name, cause))

\* `output = result` in the callback of tmpl.execute
TemplateOutput(err, result) == result

\* require after template returned, and the rest of an autorequire fiber:
\* setCaseVariantAliases, then fe_next.
RequireReturn(t, stack, fr, e) ==
    LET lvl == stack[Len(stack)]
    IN  /\ SetTask(t, WithTop(stack,
                Returned(lvl, [fr EXCEPT !.exp = e, !.phase = "returned"])))
        /\ reqReturned' = [reqReturned EXCEPT ![fr.arg] = <<e>>]
        /\ IF lvl.kind = "auto"
           THEN /\ installed' = SetCaseVariantAliases(installed, lvl.install, e)
                /\ completed' = completed + 1
                /\ doneCount' = IF ForEachDone(completed + 1, NumAuto)
                                THEN doneCount + 1 ELSE doneCount
           ELSE UNCHANGED <<installed, completed, doneCount>>

\* future.wait() returns in template: the fiber goes on to `return output`
\* and, inside require, to the lines after clone_ctx.template(name, []).
\* cc is the value of the global clone_ctx at that moment.
FinishTemplate(t, stack, fr0, output, cc) ==
    LET lvl == stack[Len(stack)]
        fr == [fr0 EXCEPT !.resolved = @ + 1]
    IN  IF fr.op = "template"
        THEN /\ SetTask(t, WithTop(stack,
                     Returned(lvl, [fr EXCEPT !.out = output, !.phase = "returned"])))
             /\ UNCHANGED <<require_cache, reqReturned, installed, completed, doneCount>>
        ELSE IF cc.module = NoContainer
        THEN \* clone_ctx.module is undefined: TypeError
             /\ SetTask(t, WithTop(stack,
                     Returned(lvl, [fr EXCEPT !.threw = TRUE, !.phase = "thrown"])))
             /\ UNCHANGED <<require_cache, reqReturned, installed, completed, doneCount>>
        ELSE /\ require_cache' = RequireCacheWrite(require_cache, fr.arg, cc.module)
             /\ RequireReturn(t, stack, fr, require_cache'[fr.arg])

\* template up to future.wait(): loader.get inside try; a throw is caught,
\* recorded and returns the future before the wait.
TemplateBegin(t, fr, cc) ==
    \E throws \in LoaderThrows(fr.arg) :
        IF throws
        THEN /\ errors' = PushLoadingError(errors, fr.arg, "thrown")
             /\ FinishTemplate(t, tasks[t],
                    [fr EXCEPT !.errs = PushLoadingError(@, fr.arg, "thrown")], "", cc)
        ELSE /\ SetTask(t, WithTop(tasks[t], Waiting(Top(t), fr)))
             /\ UNCHANGED <<errors, require_cache, reqReturned, installed,
                            completed, doneCount>>

\* require up to the wait inside clone_ctx.template(name, []).
RequireBegin(t, name) ==
    LET fr == [NoCall EXCEPT !.op = "require", !.arg = name,
                             !.priorExp = reqReturned[name]]
    IN  IF InRequireCache(name)
        THEN /\ RequireReturn(t, tasks[t], fr, require_cache[name])
             /\ UNCHANGED <<require_cache, clone_ctx, containers, errors>>
        ELSE LET id == Len(containers) + 1
             IN  /\ containers' = Append(containers, name)
                 /\ clone_ctx' = [module |-> id]
                 /\ TemplateBegin(t, [fr EXCEPT !.thisModule = id, !.phase = "load"],
                                  [module |-> id])

CallRequire(t, name) ==
    /\ CanCall(t)
    /\ calls' = calls + 1
    /\ UNCHANGED cacheFailed
    /\ RequireBegin(t, name)
    /\ UNCHANGED <<argVars, aliasVars, autorequire, cache, loopIdx, computeCount, lastReturned>>

CallTemplate(t, name) ==
    /\ CanCall(t)
    /\ calls' = calls + 1
    /\ UNCHANGED cacheFailed
    /\ TemplateBegin(t,
           [NoCall EXCEPT !.op = "template", !.arg = name, !.phase = "load",
                          !.thisModule = Top(t).module], clone_ctx)
    /\ UNCHANGED <<argVars, aliasVars, autorequire, cache, clone_ctx, containers, loopIdx,
                   computeCount, lastReturned>>

\* The callback handed to loader.get.
LoaderCallback(t) ==
    /\ UNCHANGED <<calls, cacheFailed>>
    /\ ~LoopRunning
    /\ Top(t).call.op \in {"template", "require"} /\ Top(t).call.phase = "load"
    /\ LET fr == [Top(t).call EXCEPT !.loaded = TRUE]
       IN  IF fr.arg \in Resolvable
           THEN \* clone_ctx = _.clone($this).setArguments(args); tmpl.execute(...)
                /\ clone_ctx' = [module |-> fr.thisModule]
                /\ SetTask(t, Append(WithTop(tasks[t],
                        Waiting(Top(t), [fr EXCEPT !.phase = "exec", !.executed = TRUE])),
                        Level("unit", fr.arg, <<>>, fr.thisModule)))
                /\ UNCHANGED <<errors, require_cache, reqReturned, installed,
                               completed, doneCount>>
           ELSE /\ errors' = PushLoadingError(errors, fr.arg, "not found")
                /\ FinishTemplate(t, tasks[t],
                       [fr EXCEPT !.errs = PushLoadingError(@, fr.arg, "not found")],
                       "", clone_ctx)
                /\ UNCHANGED clone_ctx
    /\ UNCHANGED <<argVars, aliasVars, autorequire, cache, containers, loopIdx,
                   computeCount, lastReturned>>

\* The callback handed to tmpl.execute: the unit's body has finished and
\* delivers (err, result).
ExecuteCallback(t, err, result) ==
    /\ UNCHANGED <<calls, cacheFailed>>
    /\ ~LoopRunning
    /\ Depth(t) >= 2
    /\ Top(t).kind = "unit" /\ Idle(Top(t))
    /\ LET below == SubSeq(tasks[t], 1, Depth(t) - 1)
           fr == below[Len(below)].call
           exErr == ExecutionError(fr.arg, "failed")
       IN  /\ errors' = IF err THEN Append(errors, exErr) ELSE errors
           /\ FinishTemplate(t, below,
                  [fr EXCEPT !.errs = IF err THEN Append(@, exErr) ELSE @,
                             !.failed = err, !.delivered = result],
                  TemplateOutput(err, result), clone_ctx)
    /\ UNCHANGED <<argVars, aliasVars, autorequire, cache, clone_ctx, containers, loopIdx,
                   computeCount, lastReturned>>

----------------------------------------------------------------------------
\* Collaborators that throw.  template calls loader.get inside try, and the
\* callback it hands over calls tmpl.execute outside of any try.

\* loader.get calls the callback at once with an error and then throws: the
\* callback records the error and returns the future, the catch records a
\* second error and returns the future again, which throws out of template.
LoaderCallsBackAndThrows(t, name) ==
    /\ CanCall(t)
    /\ name \notin Resolvable
    /\ calls' = calls + 1
    /\ LET errs == PushLoadingError(PushLoadingError(<<>>, name, "not found"),
                                    name, "thrown")
       IN  /\ errors' = errors \o errs
           /\ SetTask(t, WithTop(tasks[t], Returned(Top(t),
                  [NoCall EXCEPT !.op = "template", !.arg = name,
                                 !.thisModule = Top(t).module, !.errs = errs,
                                 !.loaded = TRUE, !.resolved = 2, !.threw = TRUE,
                                 !.phase = "thrown"])))
    /\ UNCHANGED <<argVars, aliasVars, autorequire, cache, require_cache,
                   clone_ctx, containers, installed, loopIdx, completed,
                   doneCount, computeCount, lastReturned, reqReturned, cacheFailed>>

\* loader.get calls the callback at once with a template, and tmpl.execute
\* throws before it has called back: the exception passes through loader.get
\* into the catch, which records it and returns the future, so that
\* future.wait() comes back at once.
ExecuteThrowsInsideGet(t, name) ==
    /\ CanCall(t)
    /\ name \in Resolvable
    /\ calls' = calls + 1
    /\ clone_ctx' = [module |-> Top(t).module]
    /\ errors' = PushLoadingError(errors, name, "thrown")
    /\ SetTask(t, WithTop(tasks[t], Returned(Top(t),
           [NoCall EXCEPT !.op = "template", !.arg = name,
                          !.thisModule = Top(t).module,
                          !.errs = PushLoadingError(<<>>, name, "thrown"),
                          !.loaded = TRUE, !.executed = TRUE, !.resolved = 1,
                          !.out = "", !.phase = "returned"])))
    /\ UNCHANGED <<argVars, aliasVars, autorequire, cache, require_cache,
                   containers, installed, loopIdx, completed, doneCount,
                   computeCount, lastReturned, reqReturned, cacheFailed>>

\* The loader calls back later, from the event loop, and tmpl.execute
\* throws: the exception leaves the callback, nothing returns the future
\* and the fiber stays in future.wait().
ExecuteThrows(t) ==
    /\ ~LoopRunning
    /\ Top(t).call.op = "template" /\ Top(t).call.phase = "load"
    /\ Top(t).call.arg \in Resolvable
    /\ clone_ctx' = [module |-> Top(t).call.thisModule]
    /\ SetTask(t, WithTop(tasks[t], Waiting(Top(t),
           [Top(t).call EXCEPT !.phase = "hung", !.loaded = TRUE,
                               !.executed = TRUE])))
    /\ UNCHANGED <<argVars, aliasVars, autorequire, cache, require_cache, errors,
                   containers, installed, loopIdx, completed, doneCount,
                   computeCount, lastReturned, reqReturned, calls, cacheFailed>>

----------------------------------------------------------------------------
\* performAutoRequire(next)

\* `if (!server_options.autorequire) { return next(null); }`, and
\* async.forEach over no keys, which calls next at once.
NextOnlyWithoutMapping(cfg) == ~cfg.present
NextAtOnce(cfg) == ~cfg.present \/ Len(cfg.tmpls) = 0

PerformAutoRequire ==
    /\ UNCHANGED <<calls, cacheFailed>>
    /\ loopIdx = 0
    /\ loopIdx' = 1
    /\ doneCount' = IF NextAtOnce(autorequire)
                    THEN doneCount + 1 ELSE doneCount
    /\ UNCHANGED <<argVars, aliasVars, autorequire, cache, require_cache, errors, clone_ctx,
                   containers, tasks, installed, completed, computeCount,
                   lastReturned, reqReturned>>

\* async.forEach calls the iterator for every key in turn, whether or not
\* the iterations started before have called fe_next; forEachSeries would
\* wait for each.
ForEachSeries(started, finished) == started = finished
ForEachParallel(started, finished) == TRUE

\* One iteration of async.forEach: Fiber(function () { ... }).run()
StartAutoFiber ==
    /\ calls' = calls + 1
    /\ UNCHANGED cacheFailed
    /\ LoopRunning
    /\ ForEachParallel(loopIdx - 1, completed)
    /\ RequireBegin(loopIdx, autorequire.tmpls[loopIdx])
    /\ loopIdx' = loopIdx + 1
    /\ UNCHANGED <<argVars, aliasVars, autorequire, cache, computeCount, lastReturned>>

----------------------------------------------------------------------------
Next ==
    \/ PerformAutoRequire
    \/ StartAutoFiber
    \/ \E t \in AllTasks, name \in Names : CallRequire(t, name)
    \/ \E t \in AllTasks, name \in Names : CallTemplate(t, name)
    \/ \E t \in AllTasks, k \in Keys : CallCacheFn(t, k)
    \/ \E t \in AllTasks : LoaderCallback(t)
    \/ \E t \in AllTasks, err \in BOOLEAN, result \in Outputs :
           ExecuteCallback(t, err, result)
    \/ \E t \in AllTasks, err \in BOOLEAN : CacheGetCallback(t, err)
    \/ \E t \in AllTasks, val \in Values : ComputeCallback(t, val)
    \/ \E t \in AllTasks, err \in BOOLEAN : CacheSetCallback(t, err)

Spec == Init /\ [][Next]_vars

\* Every collaborator step that was started calls its callback in the end
\* (the loader, the unit, the cache client's get and set, to_cache), and
\* async.forEach, which runs without interruption, starts every fiber.
TaskIds == 1..(IF NumTasks > MaxAuto THEN NumTasks ELSE MaxAuto)
CallbacksFire ==
    /\ WF_vars(StartAutoFiber)
    /\ \A t \in TaskIds :
          /\ WF_vars(t \in AllTasks /\ LoaderCallback(t))
          /\ WF_vars(t \in AllTasks /\ \E err \in BOOLEAN, result \in Outputs :
                                           ExecuteCallback(t, err, result))
          /\ WF_vars(t \in AllTasks /\ \E err \in BOOLEAN : CacheGetCallback(t, err))
          /\ WF_vars(t \in AllTasks /\ \E val \in Values : ComputeCallback(t, val))
          /\ WF_vars(t \in AllTasks /\ \E err \in BOOLEAN : CacheSetCallback(t, err))

FairSpec == Spec /\ CallbacksFire

\* The same context with a loader and units that may throw.
ThrowNext ==
    \/ Next
    \/ \E t \in AllTasks, name \in Names : LoaderCallsBackAndThrows(t, name)
    \/ \E t \in AllTasks, name \in Names : ExecuteThrowsInsideGet(t, name)
    \/ \E t \in AllTasks : ExecuteThrows(t)

ThrowSpec == Init /\ [][ThrowNext]_vars

----------------------------------------------------------------------------
\* The argument slots on their own: a context whose arguments the renderer
\* sets, which calls template(name, args), and whose clone becomes the
\* context of the unit's body.

\* A context without autorequire, on which none of the calls of Next runs.
QuietInit == Init /\ ~autorequire.present

\* $this.setArguments(args), called on the context itself.
CallSetArguments(args) ==
    /\ thisArgs' = SetArguments(thisArgs, args)
    /\ childArgs' = FreshArgs
    /\ argOp' = "setArguments"
    /\ argList' = args
    /\ UNCHANGED <<apiVars, aliasVars>>

\* template(name, args): clone_ctx = _.clone($this).setArguments(args)
TemplateClone(args) ==
    /\ childArgs' = SetArguments(Clone(thisArgs), args)
    /\ argOp' = "template"
    /\ argList' = args
    /\ UNCHANGED <<thisArgs, apiVars, aliasVars>>

\* tmpl.execute(args, clone_ctx, ...): the unit's body runs with the clone
\* as its context.
ExecuteUnit ==
    /\ argOp = "template"
    /\ thisArgs' = childArgs
    /\ childArgs' = FreshArgs
    /\ argOp' = "execute"
    /\ argList' = <<>>
    /\ UNCHANGED <<apiVars, aliasVars>>

ArgNext ==
    \/ \E args \in ArgInputs : CallSetArguments(args)
    \/ \E args \in ArgInputs : TemplateClone(args)
    \/ ExecuteUnit

ArgSpec == QuietInit /\ [][ArgNext]_vars

----------------------------------------------------------------------------
\* setCaseVariantAliases on a namespace of its own.

InstallAlias(name, val) ==
    /\ installs < MaxInstalls
    /\ namespace' = SetCaseVariantAliases(namespace, name, val)
    /\ installs' = installs + 1
    /\ lastInstall' = [name |-> name, val |-> val]
    /\ UNCHANGED <<apiVars, argVars>>

AliasNext == \E name \in AliasNames, val \in AliasValues : InstallAlias(name, val)

AliasSpec == QuietInit /\ [][AliasNext]_vars

----------------------------------------------------------------------------
\* Properties.

\* Every level of every task, and its calls.
Positions == {p \in AllTasks \X (1..(MaxCalls + 1)) : p[2] <= Len(tasks[p[1]])}
\* The call a level is waiting in, and the call it finished last.
FrameAt(p) ==
    IF Idle(tasks[p[1]][p[2]]) THEN NoCall ELSE tasks[p[1]][p[2]].call
LastAt(p) ==
    IF Idle(tasks[p[1]][p[2]]) THEN tasks[p[1]][p[2]].call ELSE NoCall
\* Fiber t is the only one that has issued calls: all its calls are sequential.
OnlyTask(t) == \A u \in AllTasks : u # t => ~Started(u)

\* C1: with a cache client that reports no error (as FakeMemcached) and one
\* fiber calling, a cacheFn call issued after an earlier call for the same
\* key has returned (the earlier one having obtained its value from compute)
\* does not invoke compute again and returns the value the earlier call
\* stored, whatever that value is.
C1_SecondCallIsHit ==
    ~cacheFailed =>
        \A p \in Positions : \A c \in {FrameAt(p), LastAt(p)} :
            (c.op = "cacheFn" /\ c.priorVal # None /\ OnlyTask(p[1]))
                => /\ ~c.computed
                   /\ c.phase = "returned" => c.out = c.priorVal

\* C2: as long as no cacheFn call for a key has returned (every call issued
\* for it so far found it never cached and runs concurrently with the
\* others), compute has been invoked at most once for that key.
C2_ConcurrentComputeOnce ==
    \A k \in Keys : lastReturned[k] = None => computeCount[k] <= 1

RequireExecuting(t, name) ==
    \E d \in 1..Len(tasks[t]) :
        /\ FrameAt(<<t, d>>).op = "require"
        /\ FrameAt(<<t, d>>).arg = name
        /\ FrameAt(<<t, d>>).executed
C4_ConcurrentRequireExecutesOnce ==
    \A name \in Names :
        Cardinality({t \in AllTasks : RequireExecuting(t, name)}) <= 1

\* C5: with one fiber calling, the container a require(A) returns is the
\* container that was created for A.
C5_RequireReturnsOwnContainer ==
    \A p \in Positions :
        (LastAt(p).op = "require" /\ LastAt(p).phase = "returned"
            /\ OnlyTask(p[1]) /\ LastAt(p).exp # NoContainer)
            => containers[LastAt(p).exp] = LastAt(p).arg

\* C6: with two or more entries naming distinct templates that the loader
\* resolves, whatever performAutoRequire has installed under an install-name
\* is the container created for that entry's template.
DistinctTemplates ==
    /\ \A i \in 1..NumAuto : autorequire.tmpls[i] \in Resolvable
    /\ \A i, j \in 1..NumAuto : i # j => autorequire.tmpls[i] # autorequire.tmpls[j]
C6_AutoRequireInstallsOwn ==
    (NumAuto >= 2 /\ DistinctTemplates) =>
        \A i \in 1..NumAuto :
            installed[InstallNames[i]] # NoContainer
                => containers[installed[InstallNames[i]]] = autorequire.tmpls[i]

\* C7: performAutoRequire calls next at most once, only when every entry is
\* installed, does so as soon as the last fiber has finished, and installs
\* nothing afterwards.
AllInstalled == \A i \in 1..NumAuto : installed[InstallNames[i]] # NoContainer
C7_DoneOnceAfterInstalls ==
    /\ [](doneCount <= 1)
    /\ [](doneCount = 1 => AllInstalled)
    /\ []((loopIdx >= 1 /\ completed = NumAuto) => doneCount = 1)
    /\ [][doneCount >= 1 => installed' = installed]_vars

C7_Witness == NumAuto >= 2 /\ doneCount = 1 /\ AllInstalled

\* C8: a template(name) call for a name the loader does not resolve never
\* executes a unit, and returns the empty output without throwing, having
\* appended one TemplateLoadingError that names it.
C8_MissingTemplate ==
    \A p \in Positions :
        /\ (FrameAt(p).op = "template" /\ FrameAt(p).arg \notin Resolvable)
               => FrameAt(p).errs = <<>> /\ ~FrameAt(p).executed
        /\ (LastAt(p).op = "template" /\ LastAt(p).arg \notin Resolvable)
               => /\ LastAt(p).phase = "returned"
                  /\ LastAt(p).out = ""
                  /\ ~LastAt(p).executed
                  /\ ~LastAt(p).threw
                  /\ Len(LastAt(p).errs) = 1
                  /\ LastAt(p).errs[1].type = "TemplateLoadingError"
                  /\ LastAt(p).errs[1].name = LastAt(p).arg
                  /\ \E i \in 1..Len(errors) : errors[i] = LastAt(p).errs[1]

C8_Witness ==
    \E p \in Positions :
        /\ LastAt(p).op = "template" /\ LastAt(p).arg = "missing"
        /\ LastAt(p).phase = "returned"

\* C9: a template call whose unit was executed returns the empty output and
\* has appended one TemplateExecutionError (name, cause) when the execution
\* reported a failure, whatever result came with it, and returns the
\* delivered output and has appended nothing when it succeeded.
C9_ExecutionOutcome ==
    \A p \in Positions :
        (LastAt(p).op = "template" /\ LastAt(p).executed)
            => IF LastAt(p).failed
               THEN /\ LastAt(p).errs = <<ExecutionError(LastAt(p).arg, "failed")>>
                    /\ LastAt(p).out = ""
               ELSE /\ LastAt(p).errs = <<>>
                    /\ LastAt(p).out = LastAt(p).delivered

\* C10: a cacheFn call whose get reported an error goes on to compute, and
\* a call whose get or set reported an error returns the computed value
\* without throwing.
C10_CacheErrorsTolerated ==
    \A p \in Positions :
        /\ (FrameAt(p).op = "cacheFn" /\ FrameAt(p).getErr)
               => FrameAt(p).computed /\ FrameAt(p).phase \in {"compute", "set"}
        /\ (LastAt(p).op = "cacheFn" /\ (LastAt(p).getErr \/ LastAt(p).setErr))
               => /\ LastAt(p).phase = "returned"
                  /\ LastAt(p).computed
                  /\ LastAt(p).val \in Values
                  /\ LastAt(p).out = LastAt(p).val
                  /\ ~LastAt(p).threw

C10_Witness ==
    \E p \in Positions :
        /\ LastAt(p).op = "cacheFn" /\ LastAt(p).phase = "returned"
        /\ LastAt(p).getErr /\ LastAt(p).setErr

\* C11: after setArguments(list) with a list of at most 99 arguments, $i is
\* list[i] for every i below the length of the list and the empty string
\* for every further i up to 98, and arguments and $$ both are the list,
\* whatever the context held before; without a list, arguments and $$ are
\* the empty list and $0..$98 are all empty.
C11_SetArguments ==
    argOp = "setArguments" =>
        LET list == IF argList = <<>> THEN <<>> ELSE argList[1]
        IN  Len(list) <= SlotsCleared =>
              /\ \A i \in SlotIds :
                    /\ i < Len(list) => thisArgs.slots[i] = list[i + 1]
                    /\ (Len(list) <= i /\ i <= SlotsCleared - 1)
                          => thisArgs.slots[i] = ""
              /\ thisArgs.arguments = <<list>>
              /\ thisArgs.dd = <<list>>
              /\ argList = <<>> => thisArgs.arguments = << <<>> >>

\* A context that held 100 arguments or more is given a list of one.
C11_Witness ==
    /\ argOp = "setArguments"
    /\ argList = << <<"b">> >>
    /\ thisArgs.slots[SlotsCleared] = "a"
    /\ thisArgs.slots[0] = "b"
    /\ thisArgs.slots[1] = ""

\* C12: installing a value under a name sets it under the name as given,
\* under the name with every letter in lower case and under the name with
\* its first character in upper case, and changes no other key.
CasePairs == {<<"f", "F">>, <<"x", "X">>, <<"y", "Y">>, <<"z", "Z">>}
IsLowerCaseOf(k, name) ==
    /\ Len(k) = Len(name)
    /\ \A i \in 1..Len(name) :
          \/ <<k[i], name[i]>> \in CasePairs
          \/ k[i] = name[i] /\ ~\E p \in CasePairs : p[2] = name[i]
IsFirstUpperOf(k, name) ==
    /\ Len(k) = Len(name)
    /\ \A i \in 1..Len(name) :
          IF i = 1
          THEN \/ <<name[i], k[i]>> \in CasePairs
               \/ k[i] = name[i] /\ ~\E p \in CasePairs : p[1] = name[i]
          ELSE k[i] = name[i]
C12_ThreeAliases ==
    [][installs' = installs + 1 =>
          LET name == lastInstall'.name
          IN  \A k \in AliasNames :
                  namespace'[k] =
                      IF k = name \/ IsLowerCaseOf(k, name) \/ IsFirstUpperOf(k, name)
                      THEN lastInstall'.val ELSE namespace[k]]_vars

\* One value installed under fF: reachable under fF, ff and FF, nowhere else.
C12_Witness ==
    /\ installs = 1
    /\ \A k \in AliasNames :
          namespace[k] = IF k \in {<<"f", "F">>, <<"f", "f">>, <<"F", "F">>}
                         THEN "v1" ELSE Unset

\* C19: the clone that template(name, args) hands to the unit has, in every
\* slot, the argument of that position or nothing of the caller's, and the
\* call leaves the caller's slots, arguments and $$ as they were.
C19_FreshChildArguments ==
    [][\A args \in ArgInputs :
          TemplateClone(args) =>
              LET list == IF args = <<>> THEN <<>> ELSE args[1]
              IN  /\ \A i \in SlotIds :
                        childArgs'.slots[i] \in
                            IF i < Len(list) THEN {list[i + 1]} ELSE {"", Absent}
                  /\ thisArgs' = thisArgs]_vars

\* C13: performAutoRequire on a context whose autorequire mapping is absent
\* or has no entries calls next in that same step, and the step starts no
\* call (no loader request, no cache get or set), appends no error and
\* installs nothing.
C13_EmptyAutoRequire ==
    [][(loopIdx = 0 /\ loopIdx' = 1 /\ NumAuto = 0) =>
          /\ doneCount = 0 /\ doneCount' = 1
          /\ UNCHANGED <<cache, require_cache, errors, clone_ctx, containers,
                         tasks, installed, completed, calls, computeCount>>]_vars

C13_Witness ==
    /\ autorequire.present /\ NumAuto = 0
    /\ loopIdx = 1 /\ doneCount = 1
    /\ errors = <<>> /\ calls = 0
    /\ \A k \in NamespaceKeys : installed[k] = NoContainer

\* C14: whenever a task is suspended inside a call, every other step is as
\* free to happen as without it: async.forEach starts its next fiber, a
\* running script or unit issues a call, and the completion each other
\* waiting call expects is delivered and lets it return.
Suspended(t) == ~Idle(Top(t))
C14_SuspensionDoesNotBlock ==
    \A t \in AllTasks :
        (\E u \in AllTasks : u # t /\ Suspended(u)) =>
            /\ LoopRunning => ENABLED StartAutoFiber
            /\ (~LoopRunning /\ Top(t).call.phase = "load")
                   => ENABLED LoaderCallback(t)
            /\ (~LoopRunning /\ Top(t).call.phase = "get")
                   => ENABLED CacheGetCallback(t, FALSE)
            /\ (~LoopRunning /\ Top(t).call.phase = "compute")
                   => ENABLED ComputeCallback(t, "v")
            /\ (~LoopRunning /\ Top(t).call.phase = "set")
                   => ENABLED CacheSetCallback(t, FALSE)
            /\ (~LoopRunning /\ Top(t).kind = "unit" /\ Idle(Top(t)))
                   => ENABLED ExecuteCallback(t, FALSE, "out")
            /\ (~LoopRunning /\ Idle(Top(t)) /\ calls < MaxCalls
                   /\ \/ Top(t).kind = "unit"
                      \/ /\ Top(t).kind = "script" /\ doneCount >= 1
                         /\ t > 1 => Started(t - 1))
                   => /\ ENABLED CallTemplate(t, "A")
                      /\ ENABLED CallRequire(t, "A")
                      /\ ENABLED CallCacheFn(t, "k")

\* The first autorequire fiber still waits for the loader inside its
\* require while the second, started after it, has returned from its own.
C14_Witness ==
    /\ autorequire.present /\ NumAuto >= 2
    /\ tasks[1][1].call.op = "require" /\ tasks[1][1].call.phase = "load"
    /\ tasks[2][1].call.op = "require" /\ tasks[2][1].call.phase = "returned"
    /\ tasks[2][1].call.executed

\* C15: the future of a template or cacheFn call is never returned twice,
\* and has been returned once when the call has ended or when nothing is
\* left that could return it, also with a loader and units that throw.
C15_ResolvedExactlyOnce ==
    \A p \in Positions :
        LET c == tasks[p[1]][p[2]].call
        IN  c.op \in {"template", "cacheFn"} =>
                /\ c.resolved <= 1
                /\ c.phase \in {"returned", "thrown", "hung"} => c.resolved = 1

\* C16 as stated: a template call that has returned has had the callback of
\* loader.get called and, when its unit was executed, the callback of
\* execute; and a task issues a call only when the call it issued before
\* has ended, with its output set and its errors in the sink.
InSink(sink, e) == \E i \in 1..Len(sink) : sink[i] = e
CallbacksFired(c) == c.loaded /\ (c.executed => c.delivered # None)
LoaderGetThrew(c) == \E i \in 1..Len(c.errs) : c.errs[i].error = "thrown"
EffectsInPlace(c, sink) ==
    (c.op = "template" /\ c.phase = "returned") =>
        /\ c.out # None
        /\ \A i \in 1..Len(c.errs) : InSink(sink, c.errs[i])
IssuesCall(t) == calls' = calls + 1 /\ tasks'[t] # tasks[t]
InProgramOrder ==
    \A t \in AllTasks :
        IssuesCall(t) =>
            /\ Top(t).call.phase \in {"", "returned", "thrown"}
            /\ EffectsInPlace(Top(t).call, errors)
C16_ReturnsAfterCallbacks ==
    [][/\ InProgramOrder
       /\ \A t \in AllTasks : \A d \in 1..Len(tasks'[t]) :
             LET c == tasks'[t][d].call
             IN  (c.op = "template" /\ c.phase = "returned") =>
                     CallbacksFired(c) /\ EffectsInPlace(c, errors')]_vars

\* C16, amended: a template call that has returned has had the callback of
\* loader.get called and, when its unit was executed, the callback of
\* execute, unless loader.get threw, which the call has recorded as a
\* TemplateLoadingError; and a task issues a call only when the call it
\* issued before has ended, with its output set and its errors in the sink.
C16_ReturnsAfterCallbacksOrThrow ==
    [][/\ InProgramOrder
       /\ \A t \in AllTasks : \A d \in 1..Len(tasks'[t]) :
             LET c == tasks'[t][d].call
             IN  (c.op = "template" /\ c.phase = "returned") =>
                     /\ CallbacksFired(c) \/ LoaderGetThrew(c)
                     /\ EffectsInPlace(c, errors')]_vars

\* One script has called template twice: the first call, whose unit failed,
\* has left its error in the sink, and the second waits for the loader.
C16_Witness ==
    /\ OnlyTask(1) /\ calls = 2 /\ containers = <<>>
    /\ Depth(1) = 1
    /\ tasks[1][1].call.op = "template" /\ tasks[1][1].call.phase = "load"
    /\ Len(errors) = 1 /\ errors[1].type = "TemplateExecutionError"

\* C17: when every started collaborator step calls its callback, every call
\* of template, require or cacheFn that a level of a task waits in, at any
\* depth, returns in the end.
LevelIds == 1..(MaxCalls + 1)
WaitsAt(t, d) == t \in AllTasks /\ d <= Depth(t) /\ ~Idle(tasks[t][d])
PhaseAt(t, d) ==
    IF t \in AllTasks /\ d <= Depth(t) THEN tasks[t][d].call.phase ELSE ""
C17_CallsEventuallyReturn ==
    \A t \in TaskIds : \A d \in LevelIds :
        WaitsAt(t, d) ~> (PhaseAt(t, d) = "returned")

\* What holds instead: every such call ends, by returning or by throwing.
CallsEventuallyEnd ==
    \A t \in TaskIds : \A d \in LevelIds :
        WaitsAt(t, d) ~> (PhaseAt(t, d) \in {"returned", "thrown"})

\* C18: every step leaves the entries the sink holds where they are and at
\* most appends to them, and the errors recorded by every call, also by a
\* call a unit's body made and by the template call inside a require, are
\* entries of that one sink.
C18_SinkSharedAppendOnly ==
    [][/\ Len(errors') >= Len(errors)
       /\ SubSeq(errors', 1, Len(errors)) = errors
       /\ \A t \in AllTasks : \A d \in 1..Len(tasks'[t]) :
             \A i \in 1..Len(tasks'[t][d].call.errs) :
                 InSink(errors', tasks'[t][d].call.errs[i])]_vars

\* The body of a unit that a require executes has called template, and
\* the error that call recorded is in the sink.
C18_Witness ==
    \E t \in AllTasks :
        /\ Depth(t) >= 2
        /\ tasks[t][1].call.op = "require" /\ tasks[t][1].call.phase = "exec"
        /\ Top(t).call.op = "template" /\ Top(t).call.phase = "returned"
        /\ Top(t).call.errs # <<>>
        /\ InSink(errors, Top(t).call.errs[1])

\* C20: a require whose template failed to load or failed in execution has
\* returned with an entry stored for its name, and every require of a name
\* issued after an earlier require of it returned comes back at once with
\* the container stored then, without asking the loader and without
\* recording an error.
FailedRequireStored(c) ==
    (c.op = "require" /\ c.errs # <<>> /\ c.phase \in {"returned", "thrown"})
        => c.phase = "returned" /\ InRequireCache(c.arg)
LaterRequireQuiet(c) ==
    (c.op = "require" /\ c.priorExp # <<>>)
        => /\ c.phase = "returned" /\ ~c.loaded /\ ~c.executed
           /\ c.errs = <<>> /\ c.exp = c.priorExp[1]
C20_FailedRequireIsCached ==
    \A p \in Positions :
        LET c == tasks[p[1]][p[2]].call
        IN  FailedRequireStored(c) /\ LaterRequireQuiet(c)

\* What holds instead: the same, as long as one fiber alone is calling.
FailedRequireIsCachedForOneFiber ==
    \A p \in Positions :
        LET c == tasks[p[1]][p[2]].call
        IN  OnlyTask(p[1]) => FailedRequireStored(c) /\ LaterRequireQuiet(c)

====
